---- MODULE Spec2Model ----
(***************************************************************************)
(* Model of the zvuk download worker (src/src/main.rs): the POST /dl       *)
(* handler `download`, the orchestrator `save_by_id`, the resolver         *)
(* `get_url` and the fetch-and-write step `dl_file`, together with the     *)
(* cache file system they write and tokio's blocking pool that runs the    *)
(* file-system operations.                                                 *)
(*                                                                         *)
(* One handler task runs per request.  A task advances from one `.await`   *)
(* to the next in a single step: everything the code does between two      *)
(* suspension points is one action.                                        *)
(***************************************************************************)
EXTENDS Integers, Sequences, FiniteSets, TLC

\* ---------------------------------------------------------------- bounds
NumRequests == 2
MaxBodyLen == 2

\* ------------------------------------------------------------- constants
StatusOK == 200
StatusInternalServerError == 500

Requests == 1..NumRequests

Null == "null"
NoPath == [to |-> <<>>, ext |-> ""]
NoOp == [kind |-> "none", path |-> NoPath, data |-> <<>>, phase |-> "none"]

\* The loop of save_by_id runs over ["best", "mid"]; TLA+ sequences are
\* 1-based, so tier t here is index t-1 of the code.
Formats == <<"best", "mid">>
NumTiers == Len(Formats)

UrlHigh == "http://h/a"
UrlMid == "http://h/b"

\* Payload inputs (struct DownloadZVUK).
Ids == {"123"}
AuthCookies == {"tok"}
Hashes == {"abc", "/abs"}

\* Media bodies a URL may serve: one body of each length up to the bound; the
\* body of length n is n bytes of value n, so bodies of different length
\* differ in every byte.
Bodies == {[i \in 1..n |-> n] : n \in 1..MaxBodyLen}

\* What the Content-Type header of a media response can be.
ContentTypes == {"absent", "unparseable", "unmapped", "mapped"}

\* The GraphQL answer as get_url reads it: unparseable text, or a JSON value
\* of which only data.mediaContents[0].stream.{high,mid} matter.
Malformed == [parses |-> FALSE, high |-> Null, mid |-> Null]
StreamDocs == [parses : {TRUE}, high : {Null, UrlHigh}, mid : {Null, UrlMid}]
UpstreamTexts == {Malformed} \cup StreamDocs

\* Statuses the upstream API and the media hosts answer with.
UpstreamStatuses == {StatusOK, 401}
MediaStatuses == {StatusOK, 404}

VARIABLES
    pc,        \* pc[r]: the .await the handler task of r is suspended at
    payload,   \* payload[r]: the parsed request body
    urls,      \* urls[r]: the vector get_url returned
    tier,      \* tier[r]: loop position of save_by_id (1-based)
    op,        \* op[r]: the file-system operation r handed to the blocking pool
    dirs,      \* directories that exist
    files,     \* files[p]: content of the file at path p, for existing files
    response,  \* response[r]: the HTTP responses sent to the caller of r
    fault,     \* fault[r]: message of the panic that unwound the task, or ""
    upstream,  \* upstream[r]: how far the resolver's upstream call got (outcome),
               \*   the status it answered and the text of its body
    call,      \* call[r]: the locals of the running dl_file call: the status of
               \*   resp, the extension its content type maps to, the bytes
    fetched,   \* fetched[r][t]: the bytes the fetch of tier t received
    wrote      \* wrote[r][t]: the (path, bytes) writes r completed for tier t

vars == <<pc, payload, urls, tier, op, dirs, files, response,
          fault, upstream, call, fetched, wrote>>

\* ------------------------------------------------------- pure functions

\* CACHEDIR (TRI_CACHE, or <cwd>/TRICACHE), as a sequence of path components.
CACHEDIR == <<"TRICACHE">>

\* A path component that is itself an absolute path.
IsAbsolute(c) == c = "/abs"

\* PathBuf::push: an absolute component replaces the path, any other one is
\* appended.
Push(path, c) == IF IsAbsolute(c) THEN <<c>> ELSE Append(path, c)

\* The directory save_by_id creates for a hash: CACHEDIR, push(hash),
\* push("zvuk").
DirPath(hash) == Push(Push(CACHEDIR, hash), "zvuk")

\* FilePath as it would be if the format were not pushed per tier: every tier
\* is written to the "best" file.
FilePathBestOnly(hash, format) == Push(DirPath(hash), "best")

\* The `to` argument of dl_file: the directory with the format pushed.
FilePath(hash, format) == Push(DirPath(hash), format)

\* Extension inferred from the content type: the header must be present, parse
\* as a mime type and have an entry in the extension table; otherwise "".
ExtOf(ct) == IF ct = "mapped" THEN "ext" ELSE ""

\* final_path of dl_file: `to`, or `to` "." ext when ext is not empty.  A
\* path with a suffix is the pair of `to` and the suffix.
FinalPath(to, ext) == IF ext = "" THEN [to |-> to, ext |-> ""]
                                  ELSE [to |-> to, ext |-> ext]

\* reqwest's is_success(): a 2xx status.
IsSuccess(status) == status >= 200 /\ status < 300

\* write_all from offset 0 over a file whose content is old.
Overlay(old, new) ==
    IF Len(new) >= Len(old) THEN new
    ELSE new \o SubSeq(old, Len(new) + 1, Len(old))

\* Reply as it would be if the Elapsed arm answered like the Ok arm.
ReplyOkAlways(result) == [status |-> StatusOK, ok |-> TRUE, error |-> ""]

\* Reply as it would be if the status were not set in the Elapsed arm: the
\* Failed outcome goes out with status 200.
ReplyStatusAlwaysOk(result) ==
    IF result = "Ok"
    THEN [status |-> StatusOK, ok |-> TRUE, error |-> ""]
    ELSE [status |-> StatusOK, ok |-> FALSE,
          error |-> "deadline has elapsed"]

\* The match at the end of download: Ok of the timeout is 200 {ok:true,""},
\* Err(Elapsed) is 500 {ok:false, <Elapsed's text>}.
Reply(result) ==
    IF result = "Ok"
    THEN [status |-> StatusOK, ok |-> TRUE, error |-> ""]
    ELSE [status |-> StatusInternalServerError, ok |-> FALSE,
          error |-> "deadline has elapsed"]

\* The wrapped block `run`: an Err of save_by_id is re-worded by map_err and
\* returned by `?`, an Ok becomes Ok(()).
Run(saved) == IF saved = "Ok" THEN "Ok" ELSE "Err"

\* The async block under the timeout: the Result of the run is bound to _res
\* and dropped, the block yields () whatever the run returned.
BlockOutput(run) == "unit"

\* The timeout of a block that finished before the deadline: Ok(output).
Finished(output) == "Ok"

\* --------------------------------------------------------------- state

NoPayload == [id |-> Null, hash |-> Null, auth_cookie |-> Null]
NoUpstream == [status |-> 0, outcome |-> Null, text |-> Malformed]
NoCall == [status |-> 0, ext |-> "", bytes |-> <<>>]
NoFetch == [received |-> FALSE, bytes |-> <<>>]

Init ==
    /\ pc = [r \in Requests |-> "idle"]
    /\ payload = [r \in Requests |-> NoPayload]
    /\ urls = [r \in Requests |-> <<>>]
    /\ tier = [r \in Requests |-> 0]
    /\ op = [r \in Requests |-> NoOp]
    /\ dirs = {}
    /\ files = [p \in {} |-> <<>>]
    /\ response = [r \in Requests |-> <<>>]
    /\ fault = [r \in Requests |-> ""]
    /\ upstream = [r \in Requests |-> NoUpstream]
    /\ call = [r \in Requests |-> NoCall]
    /\ fetched = [r \in Requests |-> [t \in 1..NumTiers |-> NoFetch]]
    /\ wrote = [r \in Requests |-> [t \in 1..NumTiers |-> {}]]

\* Panic as it would be if a panic ended the process (panic = "abort", or a
\* panic outside a task): every handler task dies with the faulting one.
PanicAborts(r, msg) ==
    /\ pc' = [q \in Requests |-> "panicked"]
    /\ fault' = [fault EXCEPT ![r] = msg]

\* A panic unwinds the handler task: nothing catches it (AssertUnwindSafe is
\* only awaited, never catch_unwind), so the task ends without a response.
Panic(r, msg) ==
    /\ pc' = [pc EXCEPT ![r] = "panicked"]
    /\ fault' = [fault EXCEPT ![r] = msg]

\* Top of an iteration of the loop in save_by_id: build the directory path
\* and hand create_dir_all to the blocking pool.
EnterTier(r, t) ==
    /\ tier' = [tier EXCEPT ![r] = t]
    /\ op' = [op EXCEPT ![r] = [kind |-> "create_dir_all",
                                path |-> [to |-> DirPath(payload[r].hash),
                                          ext |-> ""],
                                data |-> <<>>, phase |-> "queued"]]
    /\ pc' = [pc EXCEPT ![r] = "create_dir_all"]

\* Leaving dl_file for tier t: the next iteration, or `return Ok(true)` out
\* of save_by_id, through the block and the timeout, to the response.
LeaveTier(r, t) ==
    IF t < NumTiers
    THEN /\ EnterTier(r, t + 1)
         /\ UNCHANGED response
    ELSE /\ pc' = [pc EXCEPT ![r] = "done"]
         /\ op' = [op EXCEPT ![r] = NoOp]
         /\ response' = [response EXCEPT ![r] =
                            Append(@, Reply(Finished(BlockOutput(Run("Ok")))))]
         /\ UNCHANGED tier

\* ------------------------------------------------------------- actions

\* axum hands a parsed POST /dl body to download; the task runs up to the
\* send().await of get_url.
Accept(r) ==
    /\ pc[r] = "idle"
    /\ \E id \in Ids, h \in Hashes, a \in AuthCookies :
          payload' = [payload EXCEPT ![r] =
                         [id |-> id, hash |-> h, auth_cookie |-> a]]
    /\ pc' = [pc EXCEPT ![r] = "get_url_send"]
    /\ UNCHANGED <<urls, tier, op, dirs, files, response, fault,
                   upstream, call, fetched, wrote>>

\* GetUrlSend as it would be without the status check of get_url (as dl_file
\* has none): the body of any answer is read and parsed.
GetUrlSendNoStatusCheck(r) ==
    /\ pc[r] = "get_url_send"
    /\ \/ /\ upstream' = [upstream EXCEPT ![r].outcome = "transport error"]
          /\ Panic(r, "couldn't get stream")
       \/ \E s \in UpstreamStatuses :
             /\ upstream' = [upstream EXCEPT ![r].status = s, ![r].outcome = "status"]
             /\ pc' = [pc EXCEPT ![r] = "get_url_text"]
             /\ UNCHANGED fault
    /\ UNCHANGED <<payload, urls, tier, op, dirs, files, response,
                   call, fetched, wrote>>

\* get_url up to `.send().await?` and the status check; an Err of get_url
\* reaches `.expect("couldn't get stream")` in save_by_id, which panics.
GetUrlSend(r) ==
    /\ pc[r] = "get_url_send"
    /\ \/ /\ upstream' = [upstream EXCEPT ![r].outcome = "transport error"]
          /\ Panic(r, "couldn't get stream")
       \/ \E s \in UpstreamStatuses :
             /\ upstream' = [upstream EXCEPT ![r].status = s, ![r].outcome = "status"]
             /\ IF IsSuccess(s)
                THEN /\ pc' = [pc EXCEPT ![r] = "get_url_text"]
                     /\ UNCHANGED fault
                ELSE Panic(r, "couldn't get stream")
    /\ UNCHANGED <<payload, urls, tier, op, dirs, files, response,
                   call, fetched, wrote>>

\* get_url from `res.text().await?` to its return: parse the text, index the
\* stream object, unwrap both fields; then the first loop iteration of
\* save_by_id up to create_dir_all.
GetUrlText(r) ==
    /\ pc[r] = "get_url_text"
    /\ \/ /\ upstream' = [upstream EXCEPT ![r].outcome = "read error"]
          /\ Panic(r, "couldn't get stream")
          /\ UNCHANGED <<urls, tier, op>>
       \/ \E x \in UpstreamTexts :
             /\ upstream' = [upstream EXCEPT ![r].text = x, ![r].outcome = "text"]
             /\ IF ~x.parses
                THEN /\ Panic(r, "couldn't get stream")
                     /\ UNCHANGED <<urls, tier, op>>
                ELSE IF x.high = Null \/ x.mid = Null
                THEN /\ Panic(r, "unwrap on None")
                     /\ UNCHANGED <<urls, tier, op>>
                ELSE /\ urls' = [urls EXCEPT ![r] = <<x.high, x.mid>>]
                     /\ EnterTier(r, 1)
                     /\ UNCHANGED fault
    /\ UNCHANGED <<payload, dirs, files, response, call, fetched, wrote>>

\* The blocking pool runs create_dir_all.
PoolCreateDirAll(r) ==
    /\ op[r].kind = "create_dir_all"
    /\ op[r].phase = "queued"
    /\ \/ /\ dirs' = dirs \cup {op[r].path.to}
          /\ op' = [op EXCEPT ![r].phase = "ok"]
       \/ /\ op' = [op EXCEPT ![r].phase = "err"]
          /\ UNCHANGED dirs
    /\ UNCHANGED <<pc, payload, urls, tier, files, response, fault,
                   upstream, call, fetched, wrote>>

\* The task resumes after create_dir_all: unwrap, push the format, and, when
\* urls has an entry for the tier, dl_file up to reqwest::get(url).await.
AfterCreateDir(r) ==
    /\ pc[r] = "create_dir_all"
    /\ op[r].phase \in {"ok", "err"}
    /\ IF op[r].phase = "err"
       THEN /\ Panic(r, "create_dir_all failed")
            /\ op' = [op EXCEPT ![r] = NoOp]
            /\ UNCHANGED <<tier, response>>
       ELSE IF tier[r] <= Len(urls[r])
       THEN /\ pc' = [pc EXCEPT ![r] = "dl_get"]
            /\ op' = [op EXCEPT ![r] = NoOp]
            /\ UNCHANGED <<tier, response, fault>>
       ELSE /\ LeaveTier(r, tier[r])
            /\ UNCHANGED fault
    /\ UNCHANGED <<payload, urls, dirs, files, upstream, call, fetched, wrote>>

\* dl_file: reqwest::get(url) answers (any status: none is checked) or fails.
DlGet(r) ==
    /\ pc[r] = "dl_get"
    /\ \/ /\ Panic(r, "request failed")
          /\ UNCHANGED call
       \/ \E s \in MediaStatuses, ct \in ContentTypes :
             /\ call' = [call EXCEPT ![r] =
                            [status |-> s, ext |-> ExtOf(ct), bytes |-> <<>>]]
             /\ pc' = [pc EXCEPT ![r] = "dl_bytes"]
             /\ UNCHANGED fault
    /\ UNCHANGED <<payload, urls, tier, op, dirs, files, response, upstream,
                   fetched, wrote>>

\* The content of the files after path p was created or truncated to data d.
SetFile(p, d) ==
    [q \in DOMAIN files \cup {p} |-> IF q = p THEN d ELSE files[q]]

\* DlBytes as it would be if dl_file opened the target file before draining
\* the body (streaming the download to disk): a body that fails to arrive
\* leaves a created file behind.
DlBytesStreaming(r) ==
    /\ pc[r] = "dl_bytes"
    /\ \/ /\ Panic(r, "failed to read body")
          /\ call' = [call EXCEPT ![r] = NoCall]
          /\ files' = SetFile(FinalPath(FilePath(payload[r].hash,
                                                 Formats[tier[r]]),
                                        call[r].ext), <<>>)
          /\ UNCHANGED <<fetched, op>>
       \/ \E b \in Bodies :
             /\ call' = [call EXCEPT ![r].bytes = b]
             /\ fetched' = [fetched EXCEPT ![r][tier[r]] =
                               [received |-> TRUE, bytes |-> b]]
             /\ op' = [op EXCEPT ![r] =
                          [kind |-> "write",
                           path |-> FinalPath(FilePath(payload[r].hash,
                                                       Formats[tier[r]]),
                                              call[r].ext),
                           data |-> b, phase |-> "queued"]]
             /\ pc' = [pc EXCEPT ![r] = "dl_write"]
             /\ UNCHANGED <<fault, files>>
    /\ UNCHANGED <<payload, urls, tier, dirs, response, upstream, wrote>>

\* dl_file: resp.bytes() drains the body or fails; then the extension, the
\* final path, and tokio::fs::write handed to the blocking pool.
DlBytes(r) ==
    /\ pc[r] = "dl_bytes"
    /\ \/ /\ Panic(r, "failed to read body")
          /\ call' = [call EXCEPT ![r] = NoCall]
          /\ UNCHANGED <<fetched, op>>
       \/ \E b \in Bodies :
             /\ call' = [call EXCEPT ![r].bytes = b]
             /\ fetched' = [fetched EXCEPT ![r][tier[r]] =
                               [received |-> TRUE, bytes |-> b]]
             /\ op' = [op EXCEPT ![r] =
                          [kind |-> "write",
                           path |-> FinalPath(FilePath(payload[r].hash,
                                                       Formats[tier[r]]),
                                              call[r].ext),
                           data |-> b, phase |-> "queued"]]
             /\ pc' = [pc EXCEPT ![r] = "dl_write"]
             /\ UNCHANGED fault
    /\ UNCHANGED <<payload, urls, tier, dirs, files, response,
                   upstream, wrote>>

\* PoolWriteOpen as it would be if the file were opened for writing without
\* truncation: an existing file keeps its content until it is written over.
PoolWriteOpenNoTruncate(r) ==
    /\ op[r].kind = "write"
    /\ op[r].phase = "queued"
    /\ \/ /\ files' = IF op[r].path \in DOMAIN files
                      THEN files
                      ELSE SetFile(op[r].path, <<>>)
          /\ op' = [op EXCEPT ![r].phase = "opened"]
       \/ /\ op' = [op EXCEPT ![r].phase = "err"]
          /\ UNCHANGED files
    /\ UNCHANGED <<pc, payload, urls, tier, dirs, response, fault,
                   upstream, call, fetched, wrote>>

\* The blocking pool runs std::fs::write, first half: File::create opens the
\* path, creating the file or truncating it.
PoolWriteOpen(r) ==
    /\ op[r].kind = "write"
    /\ op[r].phase = "queued"
    /\ \/ /\ files' = SetFile(op[r].path, <<>>)
          /\ op' = [op EXCEPT ![r].phase = "opened"]
       \/ /\ op' = [op EXCEPT ![r].phase = "err"]
          /\ UNCHANGED files
    /\ UNCHANGED <<pc, payload, urls, tier, dirs, response, fault,
                   upstream, call, fetched, wrote>>

\* std::fs::write, second half: write_all puts the bytes at offset 0 of the
\* opened file.
PoolWriteAll(r) ==
    /\ op[r].kind = "write"
    /\ op[r].phase = "opened"
    /\ \/ /\ files' = SetFile(op[r].path, Overlay(files[op[r].path], op[r].data))
          /\ wrote' = [wrote EXCEPT ![r][tier[r]] =
                          @ \cup {[path |-> op[r].path, data |-> op[r].data]}]
          /\ op' = [op EXCEPT ![r].phase = "ok"]
       \/ /\ op' = [op EXCEPT ![r].phase = "err"]
          /\ UNCHANGED <<files, wrote>>
    /\ UNCHANGED <<pc, payload, urls, tier, dirs, response, fault,
                   upstream, call, fetched>>

\* AfterWrite as it would be if the write were not awaited: dl_file returns
\* as soon as the write is handed over and the loop goes on.
AfterWriteNotAwaited(r) ==
    /\ pc[r] = "dl_write"
    /\ call' = [call EXCEPT ![r] = NoCall]
    /\ LeaveTier(r, tier[r])
    /\ UNCHANGED fault
    /\ UNCHANGED <<payload, urls, dirs, files, upstream, fetched, wrote>>

\* The task resumes after tokio::fs::write: expect, return from dl_file, and
\* on to the next tier or to the response.
AfterWrite(r) ==
    /\ pc[r] = "dl_write"
    /\ op[r].phase \in {"ok", "err"}
    /\ call' = [call EXCEPT ![r] = NoCall]
    /\ IF op[r].phase = "err"
       THEN /\ Panic(r, "failed to write file")
            /\ op' = [op EXCEPT ![r] = NoOp]
            /\ UNCHANGED <<tier, response>>
       ELSE /\ LeaveTier(r, tier[r])
            /\ UNCHANGED fault
    /\ UNCHANGED <<payload, urls, dirs, files, upstream, fetched, wrote>>

\* The .await points of a run.
Awaiting == {"get_url_send", "get_url_text", "create_dir_all", "dl_get",
             "dl_bytes", "dl_write"}

\* Deadline as it would be if the run were spawned as a task of its own and
\* only its handle timed out: the timeout response is sent, the run goes on.
DeadlineDetached(r) ==
    /\ pc[r] \in Awaiting
    /\ op[r].phase \notin {"ok", "err"}
    /\ Len(response[r]) = 0
    /\ response' = [response EXCEPT ![r] = Append(@, Reply("Elapsed"))]
    /\ UNCHANGED <<pc, payload, urls, tier, op, dirs, files, fault, upstream,
                   call, fetched, wrote>>

\* The 300 s of the timeout pass while the run is pending.  The timeout polls
\* the run before the timer, so a run whose awaited operation has finished
\* advances first.  Dropping the run cancels its network calls; an operation
\* already handed to the blocking pool stays there and still runs.
Deadline(r) ==
    /\ pc[r] \in Awaiting
    /\ op[r].phase \notin {"ok", "err"}
    /\ pc' = [pc EXCEPT ![r] = "abandoned"]
    /\ call' = [call EXCEPT ![r] = NoCall]
    /\ response' = [response EXCEPT ![r] = Append(@, Reply("Elapsed"))]
    /\ UNCHANGED <<payload, urls, tier, op, dirs, files, fault, upstream,
                   fetched, wrote>>

Next ==
    \E r \in Requests :
        \/ Accept(r)
        \/ GetUrlSend(r)
        \/ GetUrlText(r)
        \/ PoolCreateDirAll(r)
        \/ AfterCreateDir(r)
        \/ DlGet(r)
        \/ DlBytes(r)
        \/ PoolWriteOpen(r)
        \/ PoolWriteAll(r)
        \/ AfterWrite(r)
        \/ Deadline(r)

Spec == Init /\ [][Next]_vars

\* ------------------------------------------------------------ properties

\* The handler task of r is over: it responded after the run returned, it
\* responded at the deadline, or it was unwound by a panic.
Ended(r) == pc[r] \in {"done", "abandoned", "panicked"}

\* The body of a response is a Failed outcome sent with status 500.
IsFailed(resp) ==
    /\ resp.status = StatusInternalServerError
    /\ ~resp.ok
    /\ resp.error # ""

\* get_url returned a declared Err: transport failure, non-success status,
\* unreadable body or unparseable text.
ResolveErr(r) ==
    \/ upstream[r].outcome \in {"transport error", "read error"}
    \/ upstream[r].outcome = "status" /\ ~IsSuccess(upstream[r].status)
    \/ upstream[r].outcome = "text" /\ ~upstream[r].text.parses

\* Every (path, bytes) write r completed.
Written(r) == UNION {wrote[r][t] : t \in 1..NumTiers}

\* C1: once the handler task of an accepted request is over, whichever way
\* the run went, the caller has received exactly one response; and at no time
\* more than one.
C1_ExactlyOneOutcome ==
    \A r \in Requests :
        /\ Len(response[r]) <= 1
        /\ Ended(r) => Len(response[r]) = 1

\* C2: a panic raised inside resolution, fetch or write is turned into a
\* Failed outcome: one response {ok:false, error:<message>} with status 500.
C2_FaultBecomesFailed ==
    \A r \in Requests :
        fault[r] # "" => /\ Len(response[r]) = 1
                         /\ IsFailed(response[r][1])

\* C3: a request whose upstream resolution call answered a non-success status
\* ends with one Failed response (status 500) and has created no cache file.
C3_UpstreamStatusFails ==
    \A r \in Requests :
        (/\ upstream[r].outcome = "status"
         /\ ~IsSuccess(upstream[r].status)
         /\ Ended(r))
        => /\ Len(response[r]) = 1
           /\ IsFailed(response[r][1])
           /\ Written(r) = {}
           /\ op[r].kind # "write"

\* C4: a request whose upstream answer has "high" but lacks "mid" does not
\* fault, and once it is over a response (Completed or Failed) was delivered.
C4_MissingMidRecoverable ==
    \A r \in Requests :
        (/\ upstream[r].outcome = "text"
         /\ upstream[r].text.parses
         /\ upstream[r].text.high # Null
         /\ upstream[r].text.mid = Null)
        => /\ fault[r] = ""
           /\ Ended(r) => Len(response[r]) = 1

\* The request was abandoned at the deadline.
TimedOut(r) == pc[r] = "abandoned"

\* C5: a request whose run is still pending when the deadline expires gets
\* exactly one response, the Failed outcome with the timeout message and
\* status 500, and never ok:true, also when a file-system operation of the
\* run still finishes in the background afterwards.
C5_TimeoutYieldsFailed ==
    \A r \in Requests :
        TimedOut(r) =>
            /\ Len(response[r]) = 1
            /\ IsFailed(response[r][1])
            /\ response[r][1].error = "deadline has elapsed"

\* C5 witness: an abandoned request whose write finished in the background
\* after the deadline.
C5_Witness ==
    \E r \in Requests :
        /\ TimedOut(r)
        /\ op[r].kind = "write"
        /\ op[r].phase = "ok"
        /\ Written(r) # {}

\* The run of r met an error in resolve, fetch or write.
RunError(r) ==
    \/ ResolveErr(r)
    \/ fault[r] \in {"request failed", "failed to read body",
                     "failed to write file", "create_dir_all failed"}

\* C6: the response is {ok:true, ""} only if the run met no error, and a run
\* that met an error in resolve, fetch or write ends with the Failed outcome.
C6_ErrorBecomesFailed ==
    \A r \in Requests :
        /\ (Len(response[r]) >= 1 /\ response[r][1].ok) => ~RunError(r)
        /\ (RunError(r) /\ Ended(r)) => /\ Len(response[r]) = 1
                                        /\ IsFailed(response[r][1])

\* The extensions a content type can map to.
Exts == {ExtOf(ct) : ct \in ContentTypes}

\* The files under directory d.
FilesIn(d) ==
    {p \in DOMAIN files : Len(p.to) = Len(d) + 1
                          /\ SubSeq(p.to, 1, Len(d)) = d}

C8_WriteOnlyAfterBytes ==
    [][\A p \in DOMAIN files' :
          (p \notin DOMAIN files \/ files'[p] # files[p]) =>
              \E r \in Requests :
                  /\ op[r].kind = "write"
                  /\ op[r].path = p
                  /\ tier[r] \in 1..NumTiers
                  /\ fetched[r][tier[r]].received
                  /\ op[r].data = fetched[r][tier[r]].bytes]_vars

\* C8 witness: a file was written for a tier after its bytes arrived, while
\* the same request panicked in the fetch of the other tier.
C8_Witness ==
    \E r \in Requests :
        /\ wrote[r][1] # {}
        /\ fetched[r][1].received
        /\ ~fetched[r][2].received
        /\ fault[r] \in {"request failed", "failed to read body"}

\* C9: a media response with a non-success status is not written: no write is
\* handed to the blocking pool from a dl_file call whose response status is
\* not 2xx.
C9_NonSuccessFetchNotWritten ==
    \A r \in Requests :
        (call[r].status # 0 /\ ~IsSuccess(call[r].status)) =>
            op[r].kind # "write"

\* The fetch or the write of tier Best failed for r.
BestFailed(r) ==
    /\ tier[r] = 1
    /\ fault[r] \in {"request failed", "failed to read body",
                     "failed to write file"}

\* C10: when the fetch or the write of tier Best failed and a URL for tier Mid
\* was resolved, the request does not end before tier Mid was attempted.
C10_BestFailureContained ==
    \A r \in Requests :
        (BestFailed(r) /\ Len(urls[r]) >= 2 /\ Ended(r)) => tier[r] >= 2

\* At least one tier of r was fetched and written.
SomeTierWritten(r) == \E t \in 1..NumTiers : wrote[r][t] # {}

\* C11: a run that was not cut by the deadline, whose resolution succeeded
\* and in which at least one tier was fetched and written, ends with the
\* outcome {ok:true}, also when the other tier failed.
C11_PartialSuccessIsOk ==
    \A r \in Requests :
        (Ended(r) /\ ~TimedOut(r) /\ Len(urls[r]) = NumTiers
                  /\ SomeTierWritten(r))
        => /\ Len(response[r]) = 1
           /\ response[r][1].ok

\* The status the resolver's upstream call answered was not a success.
UpstreamRefused(r) == upstream[r].status # 0 /\ ~IsSuccess(upstream[r].status)

\* Resolution failed for r: a declared Err of get_url, a refused call, or a
\* stream field that is missing.
ResolveFailed(r) ==
    \/ ResolveErr(r)
    \/ UpstreamRefused(r)
    \/ /\ upstream[r].outcome = "text"
       /\ upstream[r].text.parses
       /\ (upstream[r].text.high = Null \/ upstream[r].text.mid = Null)

\* C12, state part: a request whose resolution failed has entered no tier,
\* handed nothing to the blocking pool, fetched nothing and written nothing,
\* and a request that entered a tier has a complete resolver answer; when no
\* request got past resolution the file system is untouched.
ResolveBeforeTiers ==
    /\ \A r \in Requests :
          /\ ResolveFailed(r) =>
                /\ tier[r] = 0
                /\ op[r] = NoOp
                /\ call[r] = NoCall
                /\ Written(r) = {}
                /\ \A t \in 1..NumTiers : ~fetched[r][t].received
          /\ tier[r] >= 1 =>
                /\ upstream[r].outcome = "text"
                /\ urls[r] = <<upstream[r].text.high, upstream[r].text.mid>>
    /\ (\A r \in Requests : pc[r] = "idle" \/ ResolveFailed(r)) =>
          /\ dirs = {}
          /\ DOMAIN files = {}

\* C12, step part: the resolver call of a request starts only when the request
\* is accepted, and its answer changes only while that call is running.
ResolveOnce ==
    \A r \in Requests :
        /\ (pc'[r] = "get_url_send" /\ pc[r] # "get_url_send") => pc[r] = "idle"
        /\ pc'[r] # "idle"
           \/ pc[r] = "idle"
        /\ upstream'[r] # upstream[r] =>
              pc[r] \in {"get_url_send", "get_url_text"}

\* C12: within one request the resolver is called exactly once and before any
\* tier fetch; when resolution fails, no tier fetch, no directory creation and
\* no cache write is performed for that request.
C12_ResolveOnceBeforeTiers == []ResolveBeforeTiers /\ [][ResolveOnce]_vars

\* C12 witness: one request panicked on a missing stream field before any
\* tier, another one resolved and reached tier Mid.
C12_Witness ==
    \E r, q \in Requests :
        /\ pc[r] = "panicked"
        /\ upstream[r].outcome = "text"
        /\ upstream[r].text.mid = Null
        /\ tier[q] = 2

\* The files of directory d that belong to tier t: <d>/<format>[.<ext>].
TierFiles(d, t) == {p \in FilesIn(d) : p.to = Append(d, Formats[t])}

\* The paths r wrote for tier t.
PathsOf(r, t) == {w.path : w \in wrote[r][t]}

\* C13: once two requests with the same hash and the same resolved URLs have
\* both finished their runs, each tier has exactly one file in the cache
\* directory, and its content is the whole of the bytes one of the two runs
\* wrote for that tier.  Stated for two runs whose media responses carried the
\* same content types, so that both name their files alike.
C13_ConcurrentSameHash ==
    \A r, q \in Requests :
        (/\ r # q
         /\ pc[r] = "done" /\ pc[q] = "done"
         /\ payload[r].hash = payload[q].hash
         /\ urls[r] = urls[q]
         /\ \A t \in 1..NumTiers : PathsOf(r, t) = PathsOf(q, t))
        => \A t \in 1..NumTiers :
              LET mine == TierFiles(DirPath(payload[r].hash), t)
              IN /\ Cardinality(mine) = 1
                 /\ \A p \in mine :
                       files[p] \in {w.data : w \in wrote[r][t] \cup wrote[q][t]}

\* Request q is over and has nothing left on the blocking pool.
Settled(q) == Ended(q) /\ op[q].phase \notin {"queued", "opened"}

\* The service used by a caller that re-runs: request r is sent only after the
\* requests before it are over, with no work of theirs left in the background.
RerunNext ==
    \E r \in Requests :
        /\ \A q \in 1..(r - 1) : Settled(q)
        /\ \/ Accept(r)
           \/ GetUrlSend(r)
           \/ GetUrlText(r)
           \/ PoolCreateDirAll(r)
           \/ AfterCreateDir(r)
           \/ DlGet(r)
           \/ DlBytes(r)
           \/ PoolWriteOpen(r)
           \/ PoolWriteAll(r)
           \/ AfterWrite(r)
           \/ Deadline(r)

RerunSpec == Init /\ [][RerunNext]_vars

\* Request 2 is an identical re-run of request 1, both answered {ok:true},
\* and no further request has been sent.
IdenticalRerun ==
    /\ NumRequests >= 2
    /\ pc[1] = "done" /\ pc[2] = "done"
    /\ payload[1] = payload[2]
    /\ \A x \in Requests \ {1, 2} : pc[x] = "idle"

\* C14 as claimed: after an identical re-run the files of the cache directory
\* are those the first run left, each holding the bytes of the second run.
C14_RerunIdempotent ==
    IdenticalRerun =>
        LET dir == DirPath(payload[1].hash)
        IN /\ FilesIn(dir) = PathsOf(1, 1) \cup PathsOf(1, 2)
           /\ \A w \in Written(2) : files[w.path] = w.data

\* C14 as amended: the same, for a re-run whose media responses carry content
\* types that map to the same extensions as in the first run.
C14_RerunIdempotentSameExt ==
    (/\ IdenticalRerun
     /\ \A t \in 1..NumTiers : PathsOf(1, t) = PathsOf(2, t))
    => LET dir == DirPath(payload[1].hash)
       IN /\ FilesIn(dir) = PathsOf(1, 1) \cup PathsOf(1, 2)
          /\ Cardinality(FilesIn(dir)) = NumTiers
          /\ \A w \in Written(2) : /\ w.path \in FilesIn(dir)
                                   /\ files[w.path] = w.data

\* C14 witness: an identical re-run with the same extensions that overwrote a
\* longer file of the first run with a shorter body.
C14_Witness ==
    /\ IdenticalRerun
    /\ \A t \in 1..NumTiers : PathsOf(1, t) = PathsOf(2, t)
    /\ \E t \in 1..NumTiers :
          Len(fetched[2][t].bytes) < Len(fetched[1][t].bytes)

\* Some step of request q: of its handler task or of its blocking-pool work.
Progress(q) ==
    \/ Accept(q)
    \/ GetUrlSend(q)
    \/ GetUrlText(q)
    \/ PoolCreateDirAll(q)
    \/ AfterCreateDir(q)
    \/ DlGet(q)
    \/ DlBytes(q)
    \/ PoolWriteOpen(q)
    \/ PoolWriteAll(q)
    \/ AfterWrite(q)
    \/ Deadline(q)

\* C15, step part: the step in which a request panics changes nothing of any
\* other request: its task, its pending file operation, its response.
FaultIsolated ==
    \A r \in Requests :
        (fault[r] = "" /\ fault'[r] # "") =>
            \A q \in Requests \ {r} :
                /\ pc'[q] = pc[q]
                /\ op'[q] = op[q]
                /\ tier'[q] = tier[q]
                /\ call'[q] = call[q]
                /\ fault'[q] = fault[q]
                /\ response'[q] = response[q]

\* C15, state part: while some request has panicked, every request that is
\* not over (in flight, or still to arrive) can take its next step, and every
\* request whose run returned has its own {ok:true} response.
ServiceSurvivesFault ==
    (\E r \in Requests : pc[r] = "panicked") =>
        \A q \in Requests :
            /\ ~Settled(q) => ENABLED Progress(q)
            /\ pc[q] = "done" => response[q] = <<Reply("Ok")>>

\* C15: a fault while handling one request does not end the service: requests
\* in flight and requests arriving afterwards go on and get their own outcome.
C15_FaultDoesNotStopService ==
    []ServiceSurvivesFault /\ [][FaultIsolated]_vars

\* C15 witness: one request panicked, another one, still in flight at that
\* time or sent later, was answered {ok:true}.
C15_Witness ==
    \E r, q \in Requests :
        /\ pc[r] = "panicked"
        /\ pc[q] = "done"
        /\ response[q] = <<Reply("Ok")>>

\* C16: in every response sent, status 200 goes with ok = true and an empty
\* error, status 500 goes with ok = false (and a message), and there is no
\* other status.
C16_StatusAgreesWithOutcome ==
    \A r \in Requests :
        \A i \in 1..Len(response[r]) :
            LET x == response[r][i]
            IN /\ x.status \in {StatusOK, StatusInternalServerError}
               /\ x.status = StatusOK <=> (x.ok /\ x.error = "")
               /\ x.status = StatusInternalServerError <=> ~x.ok
               /\ ~x.ok => x.error # ""

\* C16 witness: one request answered 200 and another answered 500.
C16_Witness ==
    \E r, q \in Requests :
        /\ Len(response[r]) = 1 /\ response[r][1].status = StatusOK
        /\ Len(response[q]) = 1
        /\ response[q][1].status = StatusInternalServerError

\* C17: every directory a request created is <cacheRoot>/<hash>/zvuk and
\* every file is <cacheRoot>/<hash>/zvuk/<tierName>[.<ext>], whatever hash the
\* caller sent.
C17_WritesStayUnderCacheRoot ==
    /\ \A d \in dirs :
          \E r \in Requests :
              d = CACHEDIR \o <<payload[r].hash, "zvuk">>
    /\ \A p \in DOMAIN files :
          \E r \in Requests, t \in 1..NumTiers :
              p.to = CACHEDIR \o <<payload[r].hash, "zvuk", Formats[t]>>

\* The fetch of tier t is running for r.
Fetching(r, t) == tier[r] = t /\ pc[r] \in {"dl_get", "dl_bytes"}

\* The write of tier t is running for r.
Writing(r, t) == tier[r] = t /\ pc[r] = "dl_write"

\* C18: within a request the resolver has answered before any tier is
\* entered, tier Mid is entered only after the write of tier Best completed,
\* a fetch runs with no file operation of the request pending, and a write
\* runs only with the bytes of its own tier received.
C18_StepsInOrder ==
    \A r \in Requests :
        /\ tier[r] >= 1 => /\ upstream[r].outcome = "text"
                           /\ Len(urls[r]) = NumTiers
        /\ tier[r] >= 2 => /\ wrote[r][1] # {}
                           /\ fetched[r][1].received
        /\ \A t \in 1..NumTiers :
              /\ Fetching(r, t) => /\ op[r] = NoOp
                                   /\ wrote[r][t] = {}
              /\ Writing(r, t) => /\ op[r].kind = "write"
                                  /\ fetched[r][t].received
        /\ tier[r] = 1 => ~fetched[r][2].received /\ wrote[r][2] = {}

\* C18 witness: the fetch of tier Mid is running after tier Best was written.
C18_Witness ==
    \E r \in Requests : Fetching(r, 2) /\ wrote[r][1] # {}

\* The timeout outcome of r has been produced.
TimeoutSent(r) ==
    /\ Len(response[r]) >= 1
    /\ response[r][1].error = "deadline has elapsed"

\* C19, as a condition on every step: once the timeout outcome of a request
\* is out, its task stands still (no tier entered, no fetch, no further
\* response), nothing new is handed to the blocking pool, and the only thing
\* that may still move is the one file operation that was pending at the
\* deadline, which runs to its end; a write is logged only by that operation.
NoNewStepAfterTimeout ==
    \A r \in Requests :
        TimeoutSent(r) =>
            /\ pc'[r] = pc[r]
            /\ tier'[r] = tier[r]
            /\ urls'[r] = urls[r]
            /\ call'[r] = call[r]
            /\ fetched'[r] = fetched[r]
            /\ response'[r] = response[r]
            /\ op'[r].kind = op[r].kind
            /\ op'[r].path = op[r].path
            /\ op'[r].data = op[r].data
            /\ op[r].phase \in {"none", "ok", "err"} => op'[r] = op[r]
            /\ wrote'[r] # wrote[r] => /\ op[r].kind = "write"
                                       /\ op[r].phase = "opened"
                                       /\ op'[r].phase = "ok"

\* C19: after the deadline fired for a request and its timeout outcome was
\* produced, the request starts no further step; at most the file operation in
\* flight at the deadline still completes in the background.
C19_NoStepAfterTimeout == [][NoNewStepAfterTimeout]_vars

\* C19 witness: a request abandoned during the write of tier Best, whose write
\* then completed in the background, and which never entered tier Mid.
C19_Witness ==
    \E r \in Requests :
        /\ TimeoutSent(r)
        /\ tier[r] = 1
        /\ op[r].kind = "write"
        /\ op[r].phase = "ok"
        /\ wrote[r][1] # {}
        /\ ~fetched[r][2].received

====
